---- MODULE Spec2Model ----
(***************************************************************************)
(* Model of src/msfull.py: CompleteMagicSquareAnalysis.                    *)
(*                                                                         *)
(* Python lists are TLA+ sequences; the source indexes from 0, so every    *)
(* index of the source goes through Idx / Slice, which shift by one.       *)
(* Python's None is the empty tuple and a present value v is <<v>>.        *)
(* A str is a sequence of one-character strings.                           *)
(***************************************************************************)
EXTENDS Integers, Sequences, FiniteSets, TLC

VARIABLES
    pc,                     \* the phase analyze() runs next
    square,                 \* self.square
    flat,                   \* self.flat; <<>> while the attribute is not set
    discoveries,            \* self.discoveries, a dict
    patterns,               \* self.patterns, a dict
    convergent_methods,     \* self.convergent_methods, a dict
    mathematical_properties,\* self.mathematical_properties, a dict
    statistical_analysis,   \* self.statistical_analysis, a dict
    palindromes_found,      \* the local list of _analyze_prime_distribution
    primes,                 \* the local list of _analyze_prime_distribution
    f,                      \* self.f: the report file handle and what was written
    previous,               \* what the process before this one left behind
    run,                    \* how many times the program has been started
    exit_code,              \* the exit code of the process; None while it runs
    fn,                     \* the numeric routine being run on its own
    arg,                    \* the argument it was called with
    st                      \* its local variables and position

vars == <<pc, square, flat, discoveries, patterns, convergent_methods,
          mathematical_properties, statistical_analysis, palindromes_found,
          primes, f, previous, run, exit_code, fn, arg, st>>

analysis_vars == <<pc, square, flat, discoveries, patterns, convergent_methods,
                   mathematical_properties, statistical_analysis,
                   palindromes_found, primes, f, previous, run, exit_code>>

proc_vars == <<previous, run, exit_code>>

num_vars == <<fn, arg, st>>

-----------------------------------------------------------------------------
(* Bounds of the model.                                                    *)

\* the numeric routines are run on every n in -NegN .. MaxN
NegN == 3
MaxN == 1311
\* a grid cell is perturbed by every non-zero amount in -MaxDelta .. MaxDelta
MaxDelta == 1
\* the days datetime.now() may fall on
MaxDays == 2
\* the stride extraction is run with every stride in 1 .. MaxStride
MaxStride == 12
\* the encoding is run on every sequence of boundary values this long
MaxSeqLen == 3
\* the program is started up to MaxRuns times
MaxRuns == 2

\* the side of the grid: the literal has 5 rows of 5, every loop is range(5)
N == 5

-----------------------------------------------------------------------------
(* Python built-ins.                                                       *)

None == <<>>
Some(v) == <<v>>

Idx(s, i) == s[i + 1]

\* s[a:b] for 0 <= a <= b <= len(s)
Slice(s, a, b) == SubSeq(s, a + 1, b)

\* s[::-1]
Reversed(s) == [k \in 1..Len(s) |-> s[Len(s) + 1 - k]]

RECURSIVE PySum(_)
PySum(s) == IF s = <<>> THEN 0 ELSE s[1] + PySum(Tail(s))

\* list(range(a, b, step)), step > 0
RECURSIVE PyRange(_, _, _)
PyRange(a, b, step) ==
    IF a >= b THEN <<>> ELSE <<a>> \o PyRange(a + step, b, step)

\* set(s) of a list
PySet(s) == {s[k] : k \in 1..Len(s)}

RECURSIVE PyMin(_)
PyMin(s) ==
    IF Len(s) = 1 THEN s[1]
    ELSE LET m == PyMin(Tail(s)) IN IF s[1] <= m THEN s[1] ELSE m

RECURSIVE PyMax(_)
PyMax(s) ==
    IF Len(s) = 1 THEN s[1]
    ELSE LET m == PyMax(Tail(s)) IN IF s[1] >= m THEN s[1] ELSE m

\* s.count(v)
PyCount(s, v) == Cardinality({k \in 1..Len(s) : s[k] = v})

\* d[k] = v on a dict
Put(d, k, v) == [x \in (DOMAIN d) \cup {k} |-> IF x = k THEN v ELSE d[x]]

EmptyDict == [x \in {} |-> 0]

DigitChars == <<"0", "1", "2", "3", "4", "5", "6", "7", "8", "9">>

\* str(n) of an int n >= 0: its decimal digits, most significant first
RECURSIVE PyStr(_)
PyStr(n) ==
    IF n < 10 THEN <<DigitChars[n + 1]>>
    ELSE PyStr(n \div 10) \o <<DigitChars[(n % 10) + 1]>>

\* int(d) of a one-character decimal string
PyInt(d) == CHOOSE k \in 0..9 : DigitChars[k + 1] = d

\* the characters chr() gives for the codes 32..126 (the grave accent, code
\* 96, cannot be written in a string of this language and is named by its code)
PrintableChars ==
    <<" ", "!", "\"", "#", "$", "%", "&", "'", "(", ")", "*", "+", ",", "-",
      ".", "/", "0", "1", "2", "3", "4", "5", "6", "7", "8", "9", ":", ";",
      "<", "=", ">", "?", "@", "A", "B", "C", "D", "E", "F", "G", "H", "I",
      "J", "K", "L", "M", "N", "O", "P", "Q", "R", "S", "T", "U", "V", "W",
      "X", "Y", "Z", "[", "\\", "]", "^", "_", "chr96", "a", "b", "c", "d", "e",
      "f", "g", "h", "i", "j", "k", "l", "m", "n", "o", "p", "q", "r", "s",
      "t", "u", "v", "w", "x", "y", "z", "{", "|", "}", "~">>

\* chr(c) for 0 <= c < 256; a code outside 32..126 is a control or Latin-1
\* character, written here by its code
Chr(c) ==
    IF c >= 32 /\ c <= 126 THEN PrintableChars[c - 31]
    ELSE "chr" \o ToString(c)

\* int(math.sqrt(n)) for n >= 0: the float square root is exact to the
\* integer part for every n below 2^52
RECURSIVE ISqrtFrom(_, _)
ISqrtFrom(n, r) == IF (r + 1) * (r + 1) > n THEN r ELSE ISqrtFrom(n, r + 1)

ISqrt(n) == ISqrtFrom(n, 0)

-----------------------------------------------------------------------------
(* The numeric routines, as the loops the source runs.  Each routine is a  *)
(* record of its locals and a position; XStep is one pass through the      *)
(* loop test and body, and XRun iterates it to the return.                 *)

\* _is_prime(n): entry
IsPrimeEntry(n) == [pc |-> "entry", n |-> n, i |-> 0, stop |-> 0, ret |-> FALSE]

IsPrimeStepNoSqrt(s) ==
    CASE s.pc = "entry" ->
            IF s.n < 2 THEN [s EXCEPT !.pc = "done", !.ret = FALSE]
            ELSE [s EXCEPT !.pc = "loop", !.i = 2, !.stop = ISqrt(s.n)]
      [] s.pc = "loop" ->
            IF s.i >= s.stop THEN [s EXCEPT !.pc = "done", !.ret = TRUE]
            ELSE IF s.n % s.i = 0 THEN [s EXCEPT !.pc = "done", !.ret = FALSE]
            ELSE [s EXCEPT !.i = s.i + 1]
      [] OTHER -> s

\* if n < 2: return False
\* for i in range(2, int(math.sqrt(n)) + 1): if n % i == 0: return False
\* return True
IsPrimeStep(s) ==
    CASE s.pc = "entry" ->
            IF s.n < 2 THEN [s EXCEPT !.pc = "done", !.ret = FALSE]
            ELSE [s EXCEPT !.pc = "loop", !.i = 2, !.stop = ISqrt(s.n) + 1]
      [] s.pc = "loop" ->
            IF s.i >= s.stop THEN [s EXCEPT !.pc = "done", !.ret = TRUE]
            ELSE IF s.n % s.i = 0 THEN [s EXCEPT !.pc = "done", !.ret = FALSE]
            ELSE [s EXCEPT !.i = s.i + 1]
      [] OTHER -> s

\* for i in range(2, 3): only the divisor 2 is tried
IsPrimeTryTwoOnly(n) == n >= 2 /\ (n = 2 \/ n % 2 # 0)

RECURSIVE IsPrimeRun(_)
IsPrimeRun(s) == IF s.pc = "done" THEN s ELSE IsPrimeRun(IsPrimeStep(s))

_is_prime(n) == IsPrimeRun(IsPrimeEntry(n)).ret

\* _factorize(n): entry, factors = [], d = 2
FactorizeEntry(n) == [pc |-> "outer", n |-> n, d |-> 2, factors |-> <<>>]

FactorizeStepStrict(s) ==
    CASE s.pc = "outer" ->
            IF s.d * s.d < s.n THEN [s EXCEPT !.pc = "inner"]
            ELSE [s EXCEPT !.pc = "tail"]
      [] s.pc = "inner" ->
            IF s.n % s.d = 0
            THEN [s EXCEPT !.factors = Append(s.factors, s.d), !.n = s.n \div s.d]
            ELSE [s EXCEPT !.d = s.d + 1, !.pc = "outer"]
      [] s.pc = "tail" ->
            IF s.n > 1
            THEN [s EXCEPT !.factors = Append(s.factors, s.n), !.pc = "done"]
            ELSE [s EXCEPT !.pc = "done"]
      [] OTHER -> s

\* while d * d <= n:
\*     while n % d == 0: factors.append(d); n //= d
\*     d += 1
\* if n > 1: factors.append(n)
FactorizeStep(s) ==
    CASE s.pc = "outer" ->
            IF s.d * s.d <= s.n THEN [s EXCEPT !.pc = "inner"]
            ELSE [s EXCEPT !.pc = "tail"]
      [] s.pc = "inner" ->
            IF s.n % s.d = 0
            THEN [s EXCEPT !.factors = Append(s.factors, s.d), !.n = s.n \div s.d]
            ELSE [s EXCEPT !.d = s.d + 1, !.pc = "outer"]
      [] s.pc = "tail" ->
            IF s.n > 1
            THEN [s EXCEPT !.factors = Append(s.factors, s.n), !.pc = "done"]
            ELSE [s EXCEPT !.pc = "done"]
      [] OTHER -> s

RECURSIVE FactorizeRun(_)
FactorizeRun(s) == IF s.pc = "done" THEN s ELSE FactorizeRun(FactorizeStep(s))

_factorize(n) == FactorizeRun(FactorizeEntry(n)).factors

\* sum(int(d) for d in str(dr))
DigitSum(dr) == LET ds == PyStr(dr) IN PySum([k \in 1..Len(ds) |-> PyInt(ds[k])])

\* the digital-root loop of _discover_palindromes: dr = num
DigitalRootEntry(num) == [pc |-> "loop", dr |-> num]

DigitalRootStepOnce(s) ==
    CASE s.pc = "loop" ->
            IF s.dr > 9 THEN [s EXCEPT !.dr = DigitSum(s.dr), !.pc = "done"]
            ELSE [s EXCEPT !.pc = "done"]
      [] OTHER -> s

\* while dr > 9: dr = sum(int(d) for d in str(dr))
DigitalRootStep(s) ==
    CASE s.pc = "loop" ->
            IF s.dr > 9 THEN [s EXCEPT !.dr = DigitSum(s.dr)]
            ELSE [s EXCEPT !.pc = "done"]
      [] OTHER -> s

RECURSIVE DigitalRootRun(_)
DigitalRootRun(s) == IF s.pc = "done" THEN s ELSE DigitalRootRun(DigitalRootStep(s))

digital_root(num) == DigitalRootRun(DigitalRootEntry(num)).dr

-----------------------------------------------------------------------------
(* The grid of __init__.                                                   *)

SquareLiteral ==
    << <<434, 1311, 312, 278, 966>>,
       <<204, 812, 934, 280, 1071>>,
       <<626, 620, 809, 620, 626>>,
       <<1071, 280, 934, 812, 204>>,
       <<966, 278, 312, 1311, 434>> >>

\* the attributes __init__ sets, for a given grid; analyze() has not started
InitObject(grid) ==
    /\ pc = "open"
    /\ square = grid
    /\ flat = <<>>
    /\ discoveries = EmptyDict
    /\ patterns = EmptyDict
    /\ convergent_methods = EmptyDict
    /\ mathematical_properties = EmptyDict
    /\ statistical_analysis = EmptyDict
    /\ palindromes_found = <<>>
    /\ primes = <<>>
    /\ f = [state |-> "unopened", written |-> <<>>]

\* the first start of the program: no report file exists yet
InitProcess ==
    /\ previous = [content |-> None, exit_code |-> None]
    /\ run = 1
    /\ exit_code = None

-----------------------------------------------------------------------------
(* Views of the grid, as the comprehensions of the source compute them.    *)

FlattenColumnMajor(rows) ==
    [k \in 1..(Len(rows) * Len(rows)) |->
        rows[((k - 1) % Len(rows)) + 1][((k - 1) \div Len(rows)) + 1]]

\* [val for row in rows for val in row]
RECURSIVE Flatten(_)
Flatten(rows) == IF rows = <<>> THEN <<>> ELSE rows[1] \o Flatten(Tail(rows))

NotTransposed(sq) ==
    [j1 \in 1..N |-> [i1 \in 1..N |-> Idx(Idx(sq, j1 - 1), i1 - 1)]]

\* [[sq[i][j] for i in range(5)] for j in range(5)]
Transposed(sq) ==
    [j1 \in 1..N |-> [i1 \in 1..N |-> Idx(Idx(sq, i1 - 1), j1 - 1)]]

IsMirrorSymmetric(sq) ==
    \A i \in 0..(N - 1) : \A j \in 0..(N - 1) :
        Idx(Idx(sq, i), j) = Idx(Idx(sq, 4 - i), j)

\* all(sq[i][j] == sq[4-i][4-j] for i in range(5) for j in range(5))
IsRotationallySymmetric(sq) ==
    \A i \in 0..(N - 1) : \A j \in 0..(N - 1) :
        Idx(Idx(sq, i), j) = Idx(Idx(sq, 4 - i), 4 - j)

\* [sum(row) for row in sq]
RowSums(sq) == [k \in 1..Len(sq) |-> PySum(sq[k])]

\* [sum(sq[i][j] for i in range(5)) for j in range(5)]
ColSums(sq) ==
    [j1 \in 1..N |-> PySum([i1 \in 1..N |-> Idx(Idx(sq, i1 - 1), j1 - 1)])]

\* sum(sq[i][i] for i in range(5))
Diag1(sq) == PySum([i1 \in 1..N |-> Idx(Idx(sq, i1 - 1), i1 - 1)])

\* sum(sq[i][4-i] for i in range(5))
Diag2(sq) == PySum([i1 \in 1..N |-> Idx(Idx(sq, i1 - 1), 4 - (i1 - 1))])

AllSumsNoAntiDiagonal(sq) ==
    RowSums(sq) \o ColSums(sq) \o <<Diag1(sq), Diag1(sq)>>

\* all_sums = row_sums + col_sums + [diag1, diag2]
AllSums(sq) == RowSums(sq) \o ColSums(sq) \o <<Diag1(sq), Diag2(sq)>>

MagicConstantNoSet(sq) ==
    LET all_sums == AllSums(sq) IN
    IF Len(all_sums) = 1 THEN Some(Idx(all_sums, 0)) ELSE None

\* magic_constant = all_sums[0] if len(set(all_sums)) == 1 else None
MagicConstant(sq) ==
    LET all_sums == AllSums(sq) IN
    IF Cardinality(PySet(all_sums)) = 1 THEN Some(Idx(all_sums, 0)) ELSE None

AsciiOfNoMod(values) == [k \in 1..Len(values) |-> Chr(values[k])]

\* ''.join(chr(val % 256) for val in values)
AsciiOf(values) == [k \in 1..Len(values) |-> Chr(values[k] % 256)]

\* sum(1 for val in values if 32 <= (val % 256) <= 126)
ValidAsciiCount(values) ==
    Cardinality({k \in 1..Len(values) :
                    32 <= (values[k] % 256) /\ (values[k] % 256) <= 126})

\* [values[p - 1] for p in positions]: every index one too low
AtPositionsOneBased(values, positions) ==
    [k \in 1..Len(positions) |-> values[positions[k]]]

\* [values[p] for p in positions]
AtPositions(values, positions) ==
    [k \in 1..Len(positions) |-> Idx(values, positions[k])]

\* positions = [3, 8, 13, 18, 23]: every index one too far
TransPositionsShifted == <<3, 8, 13, 18, 23>>

\* positions = [2, 7, 12, 17, 22]
TransPositions == <<2, 7, 12, 17, 22>>

\* trans_values = [flat_transposed[p] for p in positions]
TransValues(sq) == AtPositions(Flatten(Transposed(sq)), TransPositions)

\* the float (count / length) * 100; exact for the lengths that occur, so
\* written as the integer it equals
PercentOf(count, length) == (count * 100) \div length

-----------------------------------------------------------------------------
(* The report file.                                                        *)

\* self.f.write(...) of the values a phase computes; the fixed prose around
\* them is the same in every run and is left out
Write(fh, items) == [fh EXCEPT !.written = @ \o items]

-----------------------------------------------------------------------------
(* analyze(): the phases in the order of the with-block.                   *)

\* with open(self.output_file, 'a') as self.f: the file is not emptied
OpenAppend ==
    /\ pc = "open"
    /\ f' = [state |-> "open",
             written |-> IF previous.content = None THEN <<>>
                         ELSE previous.content[1]]
    /\ pc' = "_write_header"
    /\ UNCHANGED <<square, flat, discoveries, patterns, convergent_methods,
                   mathematical_properties, statistical_analysis,
                   palindromes_found, primes>>
    /\ UNCHANGED proc_vars
    /\ UNCHANGED num_vars

\* with open(self.output_file, 'w') as self.f
Open ==
    /\ pc = "open"
    /\ f' = [state |-> "open", written |-> <<>>]
    /\ pc' = "_write_header"
    /\ UNCHANGED <<square, flat, discoveries, patterns, convergent_methods,
                   mathematical_properties, statistical_analysis,
                   palindromes_found, primes>>
    /\ UNCHANGED proc_vars
    /\ UNCHANGED num_vars

\* analyze() without its call of _analyze_structure
WriteHeaderThenValidate ==
    /\ pc = "_write_header"
    /\ \E day \in 1..MaxDays : f' = Write(f, << <<"Date", day>> >>)
    /\ pc' = "_validate_magic_square"
    /\ UNCHANGED <<square, flat, discoveries, patterns, convergent_methods,
                   mathematical_properties, statistical_analysis,
                   palindromes_found, primes>>
    /\ UNCHANGED proc_vars
    /\ UNCHANGED num_vars

\* _write_header: the only computed value is the date of datetime.now()
WriteHeader ==
    /\ pc = "_write_header"
    /\ \E day \in 1..MaxDays : f' = Write(f, << <<"Date", day>> >>)
    /\ pc' = "_analyze_structure"
    /\ UNCHANGED <<square, flat, discoveries, patterns, convergent_methods,
                   mathematical_properties, statistical_analysis,
                   palindromes_found, primes>>
    /\ UNCHANGED proc_vars
    /\ UNCHANGED num_vars

AnalyzeStructure ==
    /\ pc = "_analyze_structure"
    /\ LET new_flat == Flatten(square)
           unique_values == Cardinality(PySet(new_flat))
       IN /\ flat' = new_flat
          /\ f' = Write(f, [k \in 1..Len(square) |-> <<"row", square[k]>>])
          /\ discoveries' =
                Put(Put(Put(discoveries,
                    "rotational_symmetry", IsRotationallySymmetric(square)),
                    "unique_values", unique_values),
                    "value_range", <<PyMin(new_flat), PyMax(new_flat)>>)
    /\ pc' = "_validate_magic_square"
    /\ UNCHANGED <<square, patterns, convergent_methods,
                   mathematical_properties, statistical_analysis,
                   palindromes_found, primes>>
    /\ UNCHANGED proc_vars
    /\ UNCHANGED num_vars

ValidateMagicSquare ==
    /\ pc = "_validate_magic_square"
    /\ LET magic_constant == MagicConstant(square)
       IN /\ f' = Write(f, << <<"rows sum to", magic_constant>>,
                             <<"columns sum to", magic_constant>>,
                             <<"diagonals sum to", magic_constant>>,
                             <<"total", PySum(flat)>>,
                             <<"unique", Cardinality(PySet(flat))>>,
                             <<"range", <<PyMin(flat), PyMax(flat)>> >> >>)
          /\ discoveries' =
                Put(Put(discoveries, "magic_constant", magic_constant),
                    "total_sum", PySum(flat))
    /\ pc' = "_analyze_mathematical_properties"
    /\ UNCHANGED <<square, flat, patterns, convergent_methods,
                   mathematical_properties, statistical_analysis,
                   palindromes_found, primes>>
    /\ UNCHANGED proc_vars
    /\ UNCHANGED num_vars

AnalyzeMathematicalProperties ==
    /\ pc = "_analyze_mathematical_properties"
    /\ LET center_row == Idx(square, 2)
           result == AsciiOf(center_row)
           trans_values == TransValues(square)
           valid_ascii_count == ValidAsciiCount(center_row)
           validity_percent == PercentOf(valid_ascii_count, Len(center_row))
       IN /\ f' = Write(f, << <<"center_row", center_row>>,
                             <<"mapping", center_row, result>>,
                             <<"result", result>>,
                             <<"trans_values", trans_values>>,
                             <<"identical result", result>>,
                             <<"validity", validity_percent,
                               valid_ascii_count, Len(center_row)>> >>)
          /\ discoveries' =
                Put(Put(discoveries, "primary_result", result),
                    "center_row", center_row)
          /\ statistical_analysis' =
                Put(Put(statistical_analysis,
                    "primary_validity", validity_percent),
                    "random_probability", "0.0001")
    /\ pc' = "_discover_palindromes"
    /\ UNCHANGED <<square, flat, patterns, convergent_methods,
                   mathematical_properties, palindromes_found, primes>>
    /\ UNCHANGED proc_vars
    /\ UNCHANGED num_vars

\* list(range(start, len(values) - 1, n)): the last index is never visited
StridePositionsShort(values, start, n) == PyRange(start, Len(values) - 1, n)

\* list(range(start, len(values), n)), the program's start 2 and stride 4
\* as parameters
StridePositions(values, start, n) == PyRange(start, Len(values), n)

\* list(range(2, len(values), 5))[:6]: the stride of the transposition
SecondaryPositionsStride5(values) ==
    LET r == StridePositions(values, 2, 5)
    IN Slice(r, 0, IF Len(r) < 6 THEN Len(r) ELSE 6)

\* list(range(2, len(values), 4))[:6]
SecondaryPositions(values) ==
    LET r == StridePositions(values, 2, 4)
    IN Slice(r, 0, IF Len(r) < 6 THEN Len(r) ELSE 6)

\* the digital_roots list built by the loop over self.flat
DigitalRoots(values) == [k \in 1..Len(values) |-> digital_root(values[k])]

\* Counter(values): value -> number of occurrences
Counter(values) == [v \in PySet(values) |-> PyCount(values, v)]

\* sorted(counter.items(), key=lambda x: (-x[1], x[0]))
RECURSIVE SortedItems(_)
SortedItems(counter) ==
    IF DOMAIN counter = {} THEN <<>>
    ELSE LET first == CHOOSE r \in DOMAIN counter :
                        \A q \in DOMAIN counter :
                            \/ counter[r] > counter[q]
                            \/ counter[r] = counter[q] /\ r <= q
             rest == [q \in (DOMAIN counter) \ {first} |-> counter[q]]
         IN << <<first, counter[first]>> >> \o SortedItems(rest)

\* the same lines with 'if count > 6' for the highest frequency
RECURSIVE RootLinesStrict(_)
RootLinesStrict(sorted_roots) ==
    IF sorted_roots = <<>> THEN <<>>
    ELSE LET root == sorted_roots[1][1]
             count == sorted_roots[1][2]
             line == IF count > 6
                        THEN << <<"Root", root, count, "highest frequency">> >>
                     ELSE IF count >= 5 THEN << <<"Root", root, count>> >>
                     ELSE IF count >= 4 THEN << <<"Root", root, count>> >>
                     ELSE <<>>
         IN line \o RootLinesStrict(Tail(sorted_roots))

\* the lines the loop over sorted_roots writes: one for every root that
\* occurs at least 4 times, marked when it occurs at least 6 times
RECURSIVE RootLines(_)
RootLines(sorted_roots) ==
    IF sorted_roots = <<>> THEN <<>>
    ELSE LET root == sorted_roots[1][1]
             count == sorted_roots[1][2]
             line == IF count >= 6
                        THEN << <<"Root", root, count, "highest frequency">> >>
                     ELSE IF count >= 5 THEN << <<"Root", root, count>> >>
                     ELSE IF count >= 4 THEN << <<"Root", root, count>> >>
                     ELSE <<>>
         IN line \o RootLines(Tail(sorted_roots))

\* displayed: the counts of the roots that got a line
Displayed(sorted_roots) ==
    {sorted_roots[k][2] : k \in {x \in 1..Len(sorted_roots) :
                                    sorted_roots[x][2] >= 4}}

IsNotDisplayed(item, displayed) == item[2] \notin displayed

\* remaining = [(r, c) for r, c in sorted_roots if c not in displayed]
RECURSIVE Remaining(_, _)
Remaining(sorted_roots, displayed) ==
    IF sorted_roots = <<>> THEN <<>>
    ELSE (IF IsNotDisplayed(sorted_roots[1], displayed)
            THEN <<sorted_roots[1]>> ELSE <<>>)
         \o Remaining(Tail(sorted_roots), displayed)

\* whether the "Other roots: 2 occurrences each" line is written
OtherRootsLine(sorted_roots) ==
    LET remaining == Remaining(sorted_roots, Displayed(sorted_roots))
    IN IF remaining # <<>> /\ remaining[1][2] = 2
       THEN Cardinality({k \in 1..Len(remaining) : remaining[k][2] = 2}) > 1
       ELSE FALSE

DiscoverPalindromes ==
    /\ pc = "_discover_palindromes"
    /\ LET result == discoveries["primary_result"]
           positions == SecondaryPositions(flat)
           pattern_values == AtPositions(flat, positions)
           pattern_ascii == AsciiOf(pattern_values)
           value_626_count == PyCount(flat, 626)
           factors == _factorize(626)
           sorted_roots == SortedItems(Counter(DigitalRoots(flat)))
       IN /\ f' = Write(f,
                    << <<"decoded", result>>,
                       <<"Values", pattern_values>>,
                       <<"ASCII", pattern_ascii>>,
                       <<"626 =", factors>>,
                       <<"Frequency", value_626_count>> >>
                    \o RootLines(sorted_roots)
                    \o (IF OtherRootsLine(sorted_roots)
                          THEN << <<"Other roots">> >> ELSE <<>>))
          /\ patterns' = Put(patterns, "secondary",
                    [values |-> pattern_values, ascii |-> pattern_ascii,
                     method |-> "Every 4th position starting at index 2"])
          /\ mathematical_properties' = Put(mathematical_properties, "626",
                    [factors |-> factors, frequency |-> value_626_count,
                     is_semiprime |-> (Len(factors) = 2)])
    /\ pc' = "_analyze_prime_distribution"
    /\ UNCHANGED <<square, flat, discoveries, convergent_methods,
                   statistical_analysis, palindromes_found, primes>>
    /\ UNCHANGED proc_vars
    /\ UNCHANGED num_vars

RECURSIVE ScanLengthShort(_, _, _)
ScanLengthShort(values, length, i) ==
    IF i >= Len(values) - length THEN <<>>
    ELSE LET seq == Slice(values, i, i + length)
         IN (IF seq = Reversed(seq) THEN << <<length, seq>> >> ELSE <<>>)
            \o ScanLengthShort(values, length, i + 1)

\* for i in range(len(flat) - length + 1):
\*     seq = flat[i:i+length]
\*     if seq == seq[::-1]: palindromes_found.append((length, seq))
\* from position i on
RECURSIVE ScanLength(_, _, _)
ScanLength(values, length, i) ==
    IF i >= Len(values) - length + 1 THEN <<>>
    ELSE LET seq == Slice(values, i, i + length)
         IN (IF seq = Reversed(seq) THEN << <<length, seq>> >> ELSE <<>>)
            \o ScanLength(values, length, i + 1)

\* for length in lengths: ...; break after the first length
ScanLengthsFirstOnly(values, lengths) ==
    IF lengths = <<>> THEN <<>> ELSE ScanLength(values, lengths[1], 0)

\* for length in lengths: the scan of that length
RECURSIVE ScanLengths(_, _)
ScanLengths(values, lengths) ==
    IF lengths = <<>> THEN <<>>
    ELSE ScanLength(values, lengths[1], 0)
         \o ScanLengths(values, Tail(lengths))

\* for length in [3, 5, 7, 9]
PalindromeLengthsWith9 == <<3, 5, 7, 9>>

\* sequences = {7: [...], 5: [...], 3: [...]}: the constants the report prints
sequences ==
    [length \in {3, 5, 7} |->
        CASE length = 7 -> <<1071, 626, 620, 809, 620, 626, 1071>>
          [] length = 5 -> <<626, 620, 809, 620, 626>>
          [] length = 3 -> <<620, 809, 620>>]

\* for length in [3, 5, 7]
PalindromeLengths == <<3, 5, 7>>

\* the orders in which a set may be iterated
Orders(S) ==
    {o \in [1..Cardinality(S) -> S] :
        \A a, b \in 1..Cardinality(S) : a # b => o[a] # o[b]}

\* the values of set(values) that _is_prime accepts
PrimeSet(values) == {v \in PySet(values) : _is_prime(v)}

AnalyzePrimeDistribution ==
    /\ pc = "_analyze_prime_distribution"
    /\ palindromes_found' = ScanLengths(flat, PalindromeLengths)
    /\ \E order \in Orders(PrimeSet(flat)) :
          /\ primes' = order
          /\ f' = Write(f,
                    IF order # <<>>
                    THEN << <<"one prime", Idx(order, 0)>>,
                            <<"ASCII Value", Idx(order, 0) % 256,
                              Chr(Idx(order, 0) % 256)>> >>
                    ELSE << <<"one prime", "None">> >>)
    /\ pc' = "_perform_ascii_analysis"
    /\ UNCHANGED <<square, flat, discoveries, patterns, convergent_methods,
                   mathematical_properties, statistical_analysis>>
    /\ UNCHANGED proc_vars
    /\ UNCHANGED num_vars

\* the transposition assigned back: self.square = transposed
PerformAsciiAnalysisInPlace ==
    /\ pc = "_perform_ascii_analysis"
    /\ LET center_row == Idx(square, 2)
           result1 == AsciiOf(center_row)
           validity1 == PercentOf(ValidAsciiCount(center_row), Len(center_row))
           trans_vals == TransValues(square)
           result2 == AsciiOf(trans_vals)
       IN /\ f' = Write(f, << <<"Extract", center_row>>,
                             <<"Convert", result1>>,
                             <<"Validity", validity1>>,
                             <<"Extract positions", TransPositions>>,
                             <<"Convert", result2>>,
                             <<"Result", result1>>,
                             <<"Highest validity", result1>>,
                             <<"Truth", result1>> >>)
          /\ convergent_methods' =
                [m \in {"Direct Center Row", "Transposition",
                        "Pattern Recognition", "Systematic Analysis"} |->
                    IF m = "Transposition" THEN result2 ELSE result1]
    /\ pc' = "_analyze_patterns"
    /\ square' = Transposed(square)
    /\ UNCHANGED <<flat, discoveries, patterns,
                   mathematical_properties, statistical_analysis,
                   palindromes_found, primes>>
    /\ UNCHANGED proc_vars
    /\ UNCHANGED num_vars

PerformAsciiAnalysis ==
    /\ pc = "_perform_ascii_analysis"
    /\ LET center_row == Idx(square, 2)
           result1 == AsciiOf(center_row)
           validity1 == PercentOf(ValidAsciiCount(center_row), Len(center_row))
           trans_vals == TransValues(square)
           result2 == AsciiOf(trans_vals)
       IN /\ f' = Write(f, << <<"Extract", center_row>>,
                             <<"Convert", result1>>,
                             <<"Validity", validity1>>,
                             <<"Extract positions", TransPositions>>,
                             <<"Convert", result2>>,
                             <<"Result", result1>>,
                             <<"Highest validity", result1>>,
                             <<"Truth", result1>> >>)
          /\ convergent_methods' =
                [m \in {"Direct Center Row", "Transposition",
                        "Pattern Recognition", "Systematic Analysis"} |->
                    IF m = "Transposition" THEN result2 ELSE result1]
    /\ pc' = "_analyze_patterns"
    /\ UNCHANGED <<square, flat, discoveries, patterns,
                   mathematical_properties, statistical_analysis,
                   palindromes_found, primes>>
    /\ UNCHANGED proc_vars
    /\ UNCHANGED num_vars

AnalyzePatterns ==
    /\ pc = "_analyze_patterns"
    /\ f' = Write(f, << <<"Magic Constant Preservation",
                          discoveries["magic_constant"]>>,
                        <<"Method Convergence",
                          Cardinality(DOMAIN convergent_methods)>> >>)
    /\ pc' = "_calculate_statistics"
    /\ UNCHANGED <<square, flat, discoveries, patterns, convergent_methods,
                   mathematical_properties, statistical_analysis,
                   palindromes_found, primes>>
    /\ UNCHANGED proc_vars
    /\ UNCHANGED num_vars

\* _calculate_statistics: pass
CalculateStatistics ==
    /\ pc = "_calculate_statistics"
    /\ pc' = "_analyze_geographic_significance"
    /\ UNCHANGED <<square, flat, discoveries, patterns, convergent_methods,
                   mathematical_properties, statistical_analysis,
                   palindromes_found, primes, f>>
    /\ UNCHANGED proc_vars
    /\ UNCHANGED num_vars

AnalyzeGeographicSignificance ==
    /\ pc = "_analyze_geographic_significance"
    /\ f' = Write(f, << <<"Semiprime 626 =", _factorize(626)>>,
                        <<"Appears", PyCount(flat, 626)>> >>)
    /\ pc' = "_synthesize_discoveries"
    /\ UNCHANGED <<square, flat, discoveries, patterns, convergent_methods,
                   mathematical_properties, statistical_analysis,
                   palindromes_found, primes>>
    /\ UNCHANGED proc_vars
    /\ UNCHANGED num_vars

\* pattern = self.patterns.get('secondary', {}); the lines written if pattern
SecondaryLines(label) ==
    IF "secondary" \in DOMAIN patterns
    THEN << <<label, patterns["secondary"].ascii>> >>
    ELSE <<>>

SynthesizeDiscoveries ==
    /\ pc = "_synthesize_discoveries"
    /\ f' = Write(f, << <<"Core Message", discoveries["primary_result"]>> >>
                     \o SecondaryLines("Pattern")
                     \o SecondaryLines("Secondary Output"))
    /\ pc' = "_write_complete_solution"
    /\ UNCHANGED <<square, flat, discoveries, patterns, convergent_methods,
                   mathematical_properties, statistical_analysis,
                   palindromes_found, primes>>
    /\ UNCHANGED proc_vars
    /\ UNCHANGED num_vars

\* palindrome_count = 3
palindrome_count == 3

\* _write_complete_solution, which ends in _write_raw_data_verification
WriteCompleteSolution ==
    /\ pc = "_write_complete_solution"
    /\ LET center_row == Idx(square, 2)
           prime_set == PrimeSet(flat)
           prime_count == Cardinality(prime_set)
           value_626_count == PyCount(Flatten(square), 626)
       IN \E prime_val \in (IF prime_set = {} THEN {"None"} ELSE prime_set) :
            f' = Write(f,
                    [k \in 1..Len(square) |-> <<"Position", k - 1, square[k]>>]
                    \o << <<"Center row values", center_row>>,
                          <<"ASCII conversion", discoveries["primary_result"]>>,
                          <<"Magic constant", discoveries["magic_constant"]>>,
                          <<"Matrix sum", discoveries["total_sum"]>>,
                          <<"Unique values", discoveries["unique_values"]>>,
                          <<"Prime count", prime_count, prime_val>>,
                          <<"Palindromic sequences", palindrome_count>>,
                          <<"Frequency", value_626_count>> >>
                    \o (IF "secondary" \in DOMAIN patterns
                        THEN << <<"Pattern", patterns["secondary"].ascii>>,
                                <<"Values", patterns["secondary"].values>>,
                                <<"Method", patterns["secondary"].method>> >>
                        ELSE <<>>))
    /\ pc' = "close"
    /\ UNCHANGED <<square, flat, discoveries, patterns, convergent_methods,
                   mathematical_properties, statistical_analysis,
                   palindromes_found, primes>>
    /\ UNCHANGED proc_vars
    /\ UNCHANGED num_vars

\* the end of the with-block closes self.f
Close ==
    /\ pc = "close"
    /\ f' = [f EXCEPT !.state = "closed"]
    /\ pc' = "done"
    /\ UNCHANGED <<square, flat, discoveries, patterns, convergent_methods,
                   mathematical_properties, statistical_analysis,
                   palindromes_found, primes>>
    /\ UNCHANGED proc_vars
    /\ UNCHANGED num_vars

-----------------------------------------------------------------------------
(* What each phase reads of the state the phases share.                    *)

\* the attributes and keys a phase reads without having assigned them
\* itself: self.flat, self.discoveries[key], self.convergent_methods,
\* self.patterns['secondary']
Reads(phase) ==
    CASE phase = "_validate_magic_square" -> {<<"flat">>}
      [] phase = "_discover_palindromes" ->
            {<<"discoveries", "primary_result">>, <<"flat">>}
      [] phase = "_analyze_prime_distribution" -> {<<"flat">>}
      [] phase = "_analyze_patterns" ->
            {<<"discoveries", "magic_constant">>, <<"convergent_methods">>}
      [] phase = "_analyze_geographic_significance" -> {<<"flat">>}
      [] phase = "_synthesize_discoveries" ->
            {<<"discoveries", "primary_result">>, <<"patterns", "secondary">>}
      [] phase = "_write_complete_solution" ->
            {<<"discoveries", "primary_result">>,
             <<"discoveries", "magic_constant">>,
             <<"discoveries", "total_sum">>,
             <<"discoveries", "unique_values">>,
             <<"flat">>, <<"patterns", "secondary">>}
      [] OTHER -> {}

\* the attribute or key has been assigned by a phase
IsAssigned(name) ==
    CASE name[1] = "flat" -> flat # <<>>
      [] name[1] = "discoveries" -> name[2] \in DOMAIN discoveries
      [] name[1] = "patterns" -> name[2] \in DOMAIN patterns
      [] name[1] = "convergent_methods" -> convergent_methods # EmptyDict

-----------------------------------------------------------------------------
(* main(), the process around analyze(), and the failures of the file.     *)

\* the phases whose first statement is a self.f.write(...);
\* _calculate_statistics is pass
WritingPhases ==
    {"_write_header", "_analyze_structure", "_validate_magic_square",
     "_analyze_mathematical_properties", "_discover_palindromes",
     "_analyze_prime_distribution", "_perform_ascii_analysis",
     "_analyze_patterns", "_analyze_geographic_significance",
     "_synthesize_discoveries", "_write_complete_solution"}

\* the report file at self.output_file: None while no file exists, else
\* what it holds; open(..., 'w') has created or emptied it, and a write
\* that did not raise is in it once the handle is closed
FileContent ==
    IF f.state = "unopened" THEN previous.content ELSE Some(f.written)

\* open(self.output_file, 'w') raises OSError: analyze() propagates it
\* before the with-block is entered, the file is not touched
OpenFails ==
    /\ pc = "open"
    /\ pc' = "raised"
    /\ UNCHANGED <<square, flat, discoveries, patterns, convergent_methods,
                   mathematical_properties, statistical_analysis,
                   palindromes_found, primes, f>>
    /\ UNCHANGED proc_vars
    /\ UNCHANGED num_vars

\* a failed write whose handle is never closed: the with-block left out
WriteFailsNoClose ==
    /\ pc \in WritingPhases
    /\ f.state = "open"
    /\ pc' = "raised"
    /\ UNCHANGED <<square, flat, discoveries, patterns, convergent_methods,
                   mathematical_properties, statistical_analysis,
                   palindromes_found, primes, f>>
    /\ UNCHANGED proc_vars
    /\ UNCHANGED num_vars

\* the first self.f.write(...) of a phase raises OSError: the with-block
\* closes self.f and analyze() propagates the error; what the earlier
\* phases wrote stays in the file
WriteFails ==
    /\ pc \in WritingPhases
    /\ f.state = "open"
    /\ f' = [f EXCEPT !.state = "closed"]
    /\ pc' = "raised"
    /\ UNCHANGED <<square, flat, discoveries, patterns, convergent_methods,
                   mathematical_properties, statistical_analysis,
                   palindromes_found, primes>>
    /\ UNCHANGED proc_vars
    /\ UNCHANGED num_vars

\* analyzer.analyze() returned: main() prints its summary and returns, the
\* interpreter exits with code 0
MainReturns ==
    /\ pc = "done"
    /\ pc' = "exited"
    /\ exit_code' = Some(0)
    /\ UNCHANGED <<square, flat, discoveries, patterns, convergent_methods,
                   mathematical_properties, statistical_analysis,
                   palindromes_found, primes, f, previous, run>>
    /\ UNCHANGED num_vars

\* main() has no try: the error of analyze() leaves main() and the
\* interpreter exits with code 1
Uncaught ==
    /\ pc = "raised"
    /\ pc' = "exited"
    /\ exit_code' = Some(1)
    /\ UNCHANGED <<square, flat, discoveries, patterns, convergent_methods,
                   mathematical_properties, statistical_analysis,
                   palindromes_found, primes, f, previous, run>>
    /\ UNCHANGED num_vars

\* the program is started again: __init__ builds a new object on the same
\* literal, and the report file is as the process before left it
Rerun ==
    /\ pc = "exited"
    /\ run < MaxRuns
    /\ pc' = "open"
    /\ flat' = <<>>
    /\ discoveries' = EmptyDict
    /\ patterns' = EmptyDict
    /\ convergent_methods' = EmptyDict
    /\ mathematical_properties' = EmptyDict
    /\ statistical_analysis' = EmptyDict
    /\ palindromes_found' = <<>>
    /\ primes' = <<>>
    /\ f' = [state |-> "unopened", written |-> <<>>]
    /\ previous' = [content |-> FileContent, exit_code |-> exit_code]
    /\ run' = run + 1
    /\ exit_code' = None
    /\ UNCHANGED square
    /\ UNCHANGED num_vars

-----------------------------------------------------------------------------
(* The grids analyze() is run on: the literal of __init__, the grids       *)
(* (a*i + b*j + c) mod 5, single-cell changes of a magic grid, and grids   *)
(* with point symmetry.                                                    *)

AffineGrid(a, b, c) ==
    [i1 \in 1..N |-> [j1 \in 1..N |-> (a * (i1 - 1) + b * (j1 - 1) + c) % N]]

AffineGrids ==
    {AffineGrid(a, b, c) : a \in 0..(N - 1), b \in 0..(N - 1), c \in 0..(N - 1)}

\* grid with cell [i][j] changed by d
Perturb(grid, i, j, d) == [grid EXCEPT ![i + 1][j + 1] = @ + d]

Deltas == ((0 - MaxDelta)..MaxDelta) \ {0}

\* the magic grids whose single-cell changes are analysed
MagicBases == {SquareLiteral, AffineGrid(1, 2, 0)}

PerturbedGrids ==
    {Perturb(g, i, j, d) :
        g \in MagicBases, i \in 0..(N - 1), j \in 0..(N - 1), d \in Deltas}

\* the literal with a cell and the cell opposite it changed by the same d
\* (the centre is its own opposite and is changed twice)
SymmetricChanges ==
    {Perturb(Perturb(SquareLiteral, i, j, d), 4 - i, 4 - j, d) :
        i \in 0..(N - 1), j \in 0..(N - 1), d \in Deltas}

\* the first 13 cells in row-major order hold (a*i + b*j) mod 5, every
\* later cell the value of the cell opposite it
MirroredGrid(a, b) ==
    [i1 \in 1..N |-> [j1 \in 1..N |->
        IF N * (i1 - 1) + (j1 - 1) <= 12
        THEN (a * (i1 - 1) + b * (j1 - 1)) % N
        ELSE (a * (N - i1) + b * (N - j1)) % N]]

\* grids with square[i][j] == square[4-i][4-j]
PointSymmetricGrids ==
    SymmetricChanges \cup {MirroredGrid(a, b) : a \in 0..(N - 1), b \in 0..(N - 1)}

Grids ==
    {SquareLiteral} \cup AffineGrids \cup PerturbedGrids \cup PointSymmetricGrids

Init ==
    /\ \E grid \in Grids : InitObject(grid)
    /\ InitProcess
    /\ fn = "none"
    /\ arg = 0
    /\ st = [pc |-> "done"]

Next ==
    \/ Open
    \/ WriteHeader
    \/ AnalyzeStructure
    \/ ValidateMagicSquare
    \/ AnalyzeMathematicalProperties
    \/ DiscoverPalindromes
    \/ AnalyzePrimeDistribution
    \/ PerformAsciiAnalysis
    \/ AnalyzePatterns
    \/ CalculateStatistics
    \/ AnalyzeGeographicSignificance
    \/ SynthesizeDiscoveries
    \/ WriteCompleteSolution
    \/ Close
    \/ MainReturns

Spec == Init /\ [][Next]_vars

-----------------------------------------------------------------------------
(* The program itself, on its literal, started up to MaxRuns times, with   *)
(* the failures of its file.                                               *)

InitIO ==
    /\ InitObject(SquareLiteral)
    /\ InitProcess
    /\ fn = "none"
    /\ arg = 0
    /\ st = [pc |-> "done"]

NextIO ==
    \/ Next
    \/ OpenFails
    \/ WriteFails
    \/ Uncaught
    \/ Rerun

SpecIO == InitIO /\ [][NextIO]_vars

-----------------------------------------------------------------------------
(* The numeric routines run on their own, one loop pass per step.          *)

NumInputs == (0 - NegN)..MaxN

InitNum ==
    /\ InitObject(SquareLiteral)
    /\ InitProcess
    /\ arg \in NumInputs
    /\ fn \in {"_is_prime", "_factorize", "digital_root"}
    /\ st = CASE fn = "_is_prime" -> IsPrimeEntry(arg)
              [] fn = "_factorize" -> FactorizeEntry(arg)
              [] fn = "digital_root" -> DigitalRootEntry(arg)

IsPrimeLoop ==
    /\ fn = "_is_prime"
    /\ st.pc # "done"
    /\ st' = IsPrimeStep(st)
    /\ UNCHANGED <<fn, arg>>
    /\ UNCHANGED analysis_vars

FactorizeLoop ==
    /\ fn = "_factorize"
    /\ st.pc # "done"
    /\ st' = FactorizeStep(st)
    /\ UNCHANGED <<fn, arg>>
    /\ UNCHANGED analysis_vars

DigitalRootLoop ==
    /\ fn = "digital_root"
    /\ st.pc # "done"
    /\ st' = DigitalRootStep(st)
    /\ UNCHANGED <<fn, arg>>
    /\ UNCHANGED analysis_vars

NextNum == IsPrimeLoop \/ FactorizeLoop \/ DigitalRootLoop

\* the interpreter runs a started loop on: no routine is suspended
SpecNum == InitNum /\ [][NextNum]_vars /\ WF_vars(NextNum)

-----------------------------------------------------------------------------
(* The sequence routines run on their own: the stride extraction of        *)
(* _discover_palindromes, the modulo-256 encoding and the validity score   *)
(* of _analyze_mathematical_properties, each applied to one input.         *)

\* the first L values of the flattened literal
FlatPrefix(L) == Slice(Flatten(SquareLiteral), 0, L)

StrideInputs ==
    {[values |-> FlatPrefix(L), start |-> s, n |-> n] :
        L \in 0..(N * N), s \in 0..(MaxStride - 1), n \in 1..MaxStride}

\* the values encoded one at a time, and the codes next to 32 and 126
BoundaryValues == {31, 32, 126, 127, 256 + 32}

RECURSIVE SeqsUpTo(_, _)
SeqsUpTo(S, len) ==
    IF len = 0 THEN {<<>>}
    ELSE LET shorter == SeqsUpTo(S, len - 1)
         IN shorter \cup {Append(q, v) : q \in {r \in shorter : Len(r) = len - 1}, v \in S}

CodecInputs ==
    {<<v>> : v \in NumInputs}
        \cup SeqsUpTo(BoundaryValues, MaxSeqLen)
        \cup {SquareLiteral[i1] : i1 \in 1..N}

\* (valid_ascii_count / len(values)) * 100, as the exact fraction num/den;
\* the division raises ZeroDivisionError when values is empty
ValidityPercent(values) ==
    IF Len(values) = 0
    THEN [raised |-> "ZeroDivisionError"]
    ELSE [raised |-> "none",
          num |-> ValidAsciiCount(values) * 100,
          den |-> Len(values)]

InitSeq ==
    /\ InitObject(SquareLiteral)
    /\ InitProcess
    /\ \/ /\ fn = "stride"
          /\ arg \in {a \in StrideInputs :
                         a.start < a.n /\ a.start < Len(a.values)}
       \/ /\ fn = "secondary"
          /\ arg \in {FlatPrefix(L) : L \in 0..(N * N)}
       \/ /\ fn \in {"encode", "validity"}
          /\ arg \in CodecInputs
    /\ st = [pc |-> "call"]

\* positions = list(range(start, len(values), n)); the values at them
StrideExtract ==
    /\ fn = "stride"
    /\ st.pc = "call"
    /\ LET positions == StridePositions(arg.values, arg.start, arg.n)
       IN st' = [pc |-> "done", positions |-> positions,
                 values |-> AtPositions(arg.values, positions)]
    /\ UNCHANGED <<fn, arg>>
    /\ UNCHANGED analysis_vars

\* positions = list(range(2, len(values), 4))[:6]; the values at them
SecondaryExtract ==
    /\ fn = "secondary"
    /\ st.pc = "call"
    /\ LET positions == SecondaryPositions(arg)
       IN st' = [pc |-> "done", positions |-> positions,
                 values |-> AtPositions(arg, positions)]
    /\ UNCHANGED <<fn, arg>>
    /\ UNCHANGED analysis_vars

\* ''.join(chr(val % 256) for val in values)
Encode ==
    /\ fn = "encode"
    /\ st.pc = "call"
    /\ st' = [pc |-> "done", chars |-> AsciiOf(arg)]
    /\ UNCHANGED <<fn, arg>>
    /\ UNCHANGED analysis_vars

\* valid_ascii_count = sum(...); validity_percent = (count / len) * 100
Validity ==
    /\ fn = "validity"
    /\ st.pc = "call"
    /\ st' = [pc |-> "done", count |-> ValidAsciiCount(arg),
              validity |-> ValidityPercent(arg)]
    /\ UNCHANGED <<fn, arg>>
    /\ UNCHANGED analysis_vars

NextSeq == StrideExtract \/ SecondaryExtract \/ Encode \/ Validity

SpecSeq == InitSeq /\ [][NextSeq]_vars

-----------------------------------------------------------------------------
(* Claims about the numeric routines.                                      *)

\* n is prime, by the definition: n >= 2 and no d in 2..n-1 divides n
NoDivisor(n) == n >= 2 /\ \A d \in 2..(n - 1) : n % d # 0

RECURSIVE Product(_)
Product(s) == IF s = <<>> THEN 1 ELSE s[1] * Product(Tail(s))

\* C6: for every n from below 2 up to the largest matrix value, _is_prime(n)
\* returns true iff n >= 2 and no d with 2 <= d < n divides n; every n < 2 is
\* not prime; 809 is prime and 626, 620, 434 and 1311 are not.
C6_IsPrime ==
    (fn = "_is_prime" /\ st.pc = "done") =>
        /\ st.ret <=> NoDivisor(arg)
        /\ arg < 2 => ~st.ret
        /\ arg = 809 => st.ret
        /\ arg \in {626, 620, 434, 1311} => ~st.ret

C6_Witness ==
    /\ fn = "_is_prime" /\ st.pc = "done"
    /\ arg = 809 /\ st.ret /\ st.i = 29

FactorizeCorrect ==
    LET fs == st.factors IN
    /\ arg >= 2 =>
        /\ Len(fs) >= 1
        /\ \A k \in 1..Len(fs) : NoDivisor(fs[k])
        /\ \A k \in 1..(Len(fs) - 1) : fs[k] <= fs[k + 1]
        /\ \A k \in 1..Len(fs) : fs[k] <= fs[Len(fs)]
        /\ Product(fs) = arg
    /\ arg = 626 => fs = <<2, 313>>
    /\ arg \in {0, 1} => fs = <<>>

\* C7: for every n >= 2 up to the largest matrix value, _factorize(n)
\* terminates and returns a non-decreasing list of primes whose product is n,
\* the residual > 1 last and largest; _factorize(626) = [2, 313]; for n in
\* {0, 1} it returns the empty list.
C7_Factorize ==
    /\ []((fn = "_factorize" /\ st.pc = "done") => FactorizeCorrect)
    /\ (fn = "_factorize") ~> (st.pc = "done")

C7_Witness ==
    /\ fn = "_factorize" /\ st.pc = "done"
    /\ arg = 626 /\ st.factors = <<2, 313>> /\ st.n = 313

\* C8: for every n >= 0 up to the largest matrix value, the digital-root loop
\* terminates with a single digit in 0..9 that is 0 exactly when n = 0 and
\* otherwise 1 + ((n - 1) mod 9); the root of 1311 is 6 and of 0 is 0.
C8_DigitalRoot ==
    /\ []((fn = "digital_root" /\ st.pc = "done" /\ arg >= 0) =>
            /\ st.dr \in 0..9
            /\ st.dr = 0 <=> arg = 0
            /\ arg > 0 => st.dr = 1 + ((arg - 1) % 9)
            /\ arg = 1311 => st.dr = 6)
    /\ (fn = "digital_root") ~> (st.pc = "done")

C8_Witness ==
    /\ fn = "digital_root" /\ st.pc = "done"
    /\ arg = 1311 /\ st.dr = 6

-----------------------------------------------------------------------------
(* Claims about analyze().                                                 *)

PhaseOrder ==
    <<"open", "_write_header", "_analyze_structure", "_validate_magic_square",
      "_analyze_mathematical_properties", "_discover_palindromes",
      "_analyze_prime_distribution", "_perform_ascii_analysis",
      "_analyze_patterns", "_calculate_statistics",
      "_analyze_geographic_significance", "_synthesize_discoveries",
      "_write_complete_solution", "close", "done", "exited">>

PhaseIndex(p) == CHOOSE k \in 1..Len(PhaseOrder) : PhaseOrder[k] = p

\* the phase has run to its end
Finished(phase) == PhaseIndex(pc) > PhaseIndex(phase)

\* the value written under a label, where the phase wrote one
HasWritten(label, value) ==
    \E k \in 1..Len(f.written) :
        f.written[k][1] = label /\ f.written[k][2] = value

\* the twelve sums of a grid, each from the cells it adds up
RECURSIVE SumCells(_, _)
SumCells(grid, cells) ==
    IF cells = {} THEN 0
    ELSE LET c == CHOOSE x \in cells : TRUE
         IN grid[c[1]][c[2]] + SumCells(grid, cells \ {c})

Lines ==
    {{<<r, c>> : c \in 1..N} : r \in 1..N}
    \cup {{<<r, c>> : r \in 1..N} : c \in 1..N}
    \cup {{<<k, k>> : k \in 1..N}, {<<k, N + 1 - k>> : k \in 1..N}}

PairwiseEqualSums(grid) ==
    LET sums == [l \in Lines |-> SumCells(grid, l)]
    IN \A l1, l2 \in Lines : sums[l1] = sums[l2]

\* grid differs from base in exactly one cell
OneCellChanged(grid, base) ==
    Cardinality({c \in (1..N) \X (1..N) : grid[c[1]][c[2]] # base[c[1]][c[2]]}) = 1

\* C1: for the hard-coded grid, _validate_magic_square finds every row sum,
\* column sum and both diagonal sums equal and stores
\* discoveries['magic_constant'] = 3301, never None.
C1_MagicConstant3301 ==
    (square = SquareLiteral /\ Finished("_validate_magic_square")) =>
        /\ discoveries["magic_constant"] # None
        /\ discoveries["magic_constant"] = Some(3301)
        /\ HasWritten("rows sum to", Some(3301))
        /\ \A l \in Lines : SumCells(square, l) = 3301

C1_Witness ==
    /\ square = SquareLiteral
    /\ pc = "_analyze_mathematical_properties"
    /\ discoveries["magic_constant"] = Some(3301)

\* C2: for every 5x5 grid the magic-square check (magic_constant is not None)
\* is true iff every row sum, column sum and both diagonal sums are pairwise
\* equal; changing one cell of a magic grid by a non-zero amount makes the
\* check false.
C2_MagicIffAllSumsEqual ==
    Finished("_validate_magic_square") =>
        /\ (discoveries["magic_constant"] # None) <=> PairwiseEqualSums(square)
        /\ discoveries["magic_constant"] = None
            \/ ~\E base \in Grids :
                    OneCellChanged(square, base) /\ PairwiseEqualSums(base)

C2_Witness ==
    /\ Finished("_validate_magic_square")
    /\ OneCellChanged(square, SquareLiteral)
    /\ discoveries["magic_constant"] = None

\* C3: row 2 of the hard-coded grid, each value encoded as chr(value mod 256),
\* is 'r','l',')','l','r' in that order, and all 5 of the 5 codes lie in
\* [32,126]: validity 100%.
C3_CenterRowDecodes ==
    (square = SquareLiteral /\ Finished("_analyze_mathematical_properties")) =>
        /\ discoveries["center_row"] = <<626, 620, 809, 620, 626>>
        /\ discoveries["primary_result"] = <<"r", "l", ")", "l", "r">>
        /\ statistical_analysis["primary_validity"] = 100
        /\ \E k \in 1..Len(f.written) :
                f.written[k] = <<"validity", 100, 5, 5>>

C3_Witness ==
    /\ square = SquareLiteral
    /\ pc = "_discover_palindromes"
    /\ discoveries["primary_result"] = <<"r", "l", ")", "l", "r">>

\* C4 as stated: transposing the hard-coded grid, flattening it and taking
\* positions [2,7,12,17,22] yields the values [312,812,626,934,312].
C4_Original ==
    (square = SquareLiteral /\ Finished("_analyze_mathematical_properties")) =>
        /\ TransPositions = <<2, 7, 12, 17, 22>>
        /\ HasWritten("trans_values", <<312, 812, 626, 934, 312>>)

\* C4, amended: transposing the hard-coded grid, flattening it row-major and
\* stride-extracting with stride 5 from offset 2 yields positions
\* [2,7,12,17,22] with values [626,620,809,620,626].
C4_TransposedStride ==
    (square = SquareLiteral /\ Finished("_analyze_mathematical_properties")) =>
        /\ TransPositions = PyRange(2, N * N, 5)
        /\ TransPositions = <<2, 7, 12, 17, 22>>
        /\ HasWritten("trans_values", <<626, 620, 809, 620, 626>>)

C4_Witness ==
    /\ square = SquareLiteral
    /\ pc = "_discover_palindromes"
    /\ HasWritten("trans_values", <<626, 620, 809, 620, 626>>)

\* C5: the hard-coded grid has point symmetry: discoveries
\* ['rotational_symmetry'] is true for it, and for a 5x5 grid the flag is true
\* exactly when square[i][j] == square[4-i][4-j] for all i, j in 0..4.
C5_PointSymmetry ==
    Finished("_analyze_structure") =>
        /\ square = SquareLiteral => discoveries["rotational_symmetry"]
        /\ discoveries["rotational_symmetry"] <=>
            \A i, j \in 0..4 : square[i + 1][j + 1] = square[(4 - i) + 1][(4 - j) + 1]

C5_Witness ==
    /\ square = SquareLiteral
    /\ pc = "_validate_magic_square"
    /\ discoveries["rotational_symmetry"]

\* C9: the palindrome scan over the row-major flattening of the hard-coded
\* grid records the 5-element sub-sequence [626,620,809,620,626], which
\* starts at flat index 10.
C9_CenterRowPalindrome ==
    (square = SquareLiteral /\ Finished("_analyze_prime_distribution")) =>
        /\ \E k \in 1..Len(palindromes_found) :
                palindromes_found[k] = <<5, <<626, 620, 809, 620, 626>> >>
        /\ {i \in 0..(Len(flat) - 5) :
                SubSeq(flat, i + 1, i + 5) = <<626, 620, 809, 620, 626>>} = {10}

C9_Witness ==
    /\ square = SquareLiteral
    /\ pc = "_perform_ascii_analysis"
    /\ Len(palindromes_found) = 3
    /\ palindromes_found[2] = <<5, <<626, 620, 809, 620, 626>> >>

\* flat[i:i+len] reads the same in both directions
IsPalindromeAt(i, len) ==
    \A m \in 1..len : flat[i + m] = flat[i + len + 1 - m]

\* the (length, start) pairs of the palindromic sub-sequences of flat
PalindromicPairs(lengths) ==
    {p \in lengths \X (0..Len(flat)) :
        p[2] + p[1] <= Len(flat) /\ IsPalindromeAt(p[2], p[1])}

\* C10 as stated: every contiguous sub-sequence of every length from the
\* minimum (3) to the maximum (7) that equals its own reversal is recorded,
\* tagged with its starting index and its length.
C10_Original ==
    Finished("_analyze_prime_distribution") =>
        \A p \in PalindromicPairs(3..7) :
            \E k \in 1..Len(palindromes_found) :
                /\ Len(palindromes_found[k]) = 3
                /\ palindromes_found[k][1] = p[2]
                /\ palindromes_found[k][2] = p[1]
                /\ palindromes_found[k][3] = SubSeq(flat, p[2] + 1, p[2] + p[1])

\* C10, amended: the scan examines every contiguous sub-sequence of the
\* flattened grid of the lengths 3, 5 and 7 only, and records every one that
\* equals its own reversal, once per occurrence, as a (length, sequence) pair
\* in order of ascending length; the starting index is not recorded.
C10_PalindromeScan ==
    Finished("_analyze_prime_distribution") =>
        /\ \A k \in 1..Len(palindromes_found) :
            LET e == palindromes_found[k] IN
            /\ Len(e) = 2
            /\ e[1] \in {3, 5, 7}
            /\ Len(e[2]) = e[1]
            /\ \A m \in 1..e[1] : e[2][m] = e[2][e[1] + 1 - m]
            /\ \E p \in PalindromicPairs({e[1]}) :
                    e[2] = SubSeq(flat, p[2] + 1, p[2] + p[1])
        /\ \A p \in PalindromicPairs({3, 5, 7}) :
            \E k \in 1..Len(palindromes_found) :
                palindromes_found[k] = <<p[1], SubSeq(flat, p[2] + 1, p[2] + p[1])>>
        /\ Len(palindromes_found) = Cardinality(PalindromicPairs({3, 5, 7}))
        /\ \A k \in 1..(Len(palindromes_found) - 1) :
                palindromes_found[k][1] <= palindromes_found[k + 1][1]

\* a grid whose last three cells are a palindrome and that holds a
\* palindrome of length 4, scanned
C10_Witness ==
    /\ pc = "_perform_ascii_analysis"
    /\ <<3, Len(flat) - 3>> \in PalindromicPairs({3})
    /\ PalindromicPairs({4}) # {}
    /\ palindromes_found # <<>>

-----------------------------------------------------------------------------
(* Claims about the sequence routines.                                     *)

\* the indices start, start + n, ... below L, as a set
StrideIndexSet(L, start, n) ==
    {p \in 0..(L - 1) : p >= start /\ (p - start) % n = 0}

CodeOf(v) == v % 256

IsPrintableCode(code) == 32 <= code /\ code <= 126

-----------------------------------------------------------------------------
(* Claims about the process: its file, its runs and its exit code.         *)

\* the process before this one and this one both ran analyze() to its end
TwoCompleteRuns ==
    /\ run >= 2
    /\ pc = "exited"
    /\ exit_code = Some(0)
    /\ previous.exit_code = Some(0)
    /\ previous.content # None

IsNotDate(item) == item[1] # "Date"

\* the written values but the date of the header
WithoutDate(written) == SelectSeq(written, IsNotDate)

\* C14 as written: running the analysis twice on the identical grid gives
\* byte-identical output; nothing written depends on a clock, on
\* randomness or on the iteration order of an unordered container.
C14_Original ==
    TwoCompleteRuns => f.written = previous.content[1]

\* C14: running the analysis twice on the hard-coded grid gives identical
\* output except for the date of the header, which is datetime.now(): the
\* two reports are identical when both runs fall on the same day, and
\* differ in the date alone otherwise.
C14_DeterministicButDate ==
    TwoCompleteRuns =>
        /\ WithoutDate(f.written) = WithoutDate(previous.content[1])
        /\ Len(f.written) = Len(previous.content[1])
        /\ \A k \in 1..Len(f.written) :
              f.written[k] # previous.content[1][k] =>
                  /\ f.written[k][1] = "Date"
                  /\ previous.content[1][k][1] = "Date"

\* two complete runs on different days: the reports differ
C14_Witness ==
    /\ TwoCompleteRuns
    /\ f.written # previous.content[1]
    /\ WithoutDate(f.written) = WithoutDate(previous.content[1])
    /\ Len(WithoutDate(f.written)) > 0

\* C15: the grid is never mutated after construction: after every phase of
\* analyze() self.square equals the literal set in __init__, and once
\* self.flat is computed it always equals the row-major flattening of
\* self.square.
C15_GridNeverMutated ==
    /\ square = SquareLiteral
    /\ flat # <<>> =>
          /\ Len(flat) = N * N
          /\ \A i \in 0..(N - 1), j \in 0..(N - 1) :
                 flat[N * i + j + 1] = square[i + 1][j + 1]
    /\ (pc \in WritingPhases \cup {"_calculate_statistics", "close", "done"}
          /\ pc # "_write_header" /\ pc # "_analyze_structure") => flat # <<>>

\* every phase has run and self.flat is set
C15_Witness ==
    /\ pc = "done"
    /\ flat # <<>>
    /\ flat[N * 2 + 2 + 1] = 809
    /\ square = SquareLiteral

\* C16: the report's output handle is closed on every exit path of
\* analyze(): when it returns, and when a phase raises in the middle of
\* rendering and analyze() propagates the error.
C16_HandleClosed ==
    /\ pc \in {"done", "raised", "exited"} => f.state # "open"
    /\ (pc \in {"done", "raised", "exited"} /\ FileContent # previous.content)
          => f.state = "closed"
    /\ pc \in WritingPhases \cup {"_calculate_statistics", "close"}
          => f.state = "open"

\* a write has raised after earlier phases wrote, and analyze() has
\* propagated the error
C16_Witness ==
    /\ pc = "raised"
    /\ f.state = "closed"
    /\ Len(f.written) > 1

\* the last phase has written its values and the handle is closed
ReportComplete ==
    /\ f.state = "closed"
    /\ \E k \in 1..Len(f.written) : f.written[k][1] = "Palindromic sequences"

\* C17: if writing the report fails part-way, no partial file is left at
\* the output path: when the process has ended, the file is either what the
\* process before left there (its complete content, or no file) or the new
\* complete report.
C17_NoPartialFile ==
    pc = "exited" =>
        \/ FileContent = previous.content
        \/ ReportComplete

-----------------------------------------------------------------------------
(* Claims about the order of the phases.                                   *)

\* C19: in the phase order of analyze(), every phase reads only state an
\* earlier phase has written: self.flat, discoveries['primary_result'],
\* discoveries['magic_constant'], discoveries['total_sum'],
\* discoveries['unique_values'], convergent_methods and
\* patterns['secondary'] are each assigned before the first phase that
\* reads them starts, so no phase meets a missing attribute or key.
C19_ReadsAfterWrites ==
    /\ \A name \in Reads(pc) : IsAssigned(name)
    /\ pc \in {"close", "done", "exited"} =>
          \A phase \in WritingPhases : \A name \in Reads(phase) : IsAssigned(name)

\* the last phase is about to read all it needs
C19_Witness ==
    /\ pc = "_write_complete_solution"
    /\ Cardinality(Reads(pc)) = 6
    /\ flat # <<>>
    /\ {"primary_result", "magic_constant", "total_sum", "unique_values"}
          \subseteq DOMAIN discoveries
    /\ "secondary" \in DOMAIN patterns
    /\ convergent_methods # EmptyDict

MethodNames ==
    {"Direct Center Row", "Transposition", "Pattern Recognition",
     "Systematic Analysis"}

\* C20: the four methods recorded in convergent_methods yield identical
\* results: after _perform_ascii_analysis the entries 'Direct Center Row',
\* 'Transposition', 'Pattern Recognition' and 'Systematic Analysis' all
\* hold the same string, and for the hard-coded grid that string is 'rl)lr'.
C20_MethodsConverge ==
    Finished("_perform_ascii_analysis") =>
        /\ DOMAIN convergent_methods = MethodNames
        /\ \A m1, m2 \in MethodNames :
              convergent_methods[m1] = convergent_methods[m2]
        /\ square = SquareLiteral =>
              \A m \in MethodNames :
                 convergent_methods[m] = <<"r", "l", ")", "l", "r">>

\* _perform_ascii_analysis has stored the four results for the literal
C20_Witness ==
    /\ square = SquareLiteral
    /\ pc = "_analyze_patterns"
    /\ DOMAIN convergent_methods = MethodNames
    /\ convergent_methods["Transposition"] = <<"r", "l", ")", "l", "r">>

-----------------------------------------------------------------------------
(* Claims about what the analysis finds in the grid.                       *)

\* C21: for every 5x5 grid, not only the hard-coded one, the values at
\* positions [2,7,12,17,22] of the row-major flattening of the transpose are
\* exactly row 2 of the grid in order, so the 'Transposition + Every 5th'
\* result always equals the 'Direct Center Row' result.
C21_TranspositionIsCenterRow ==
    /\ Finished("_analyze_mathematical_properties") =>
          /\ HasWritten("trans_values", square[3])
          /\ HasWritten("center_row", square[3])
    /\ Finished("_perform_ascii_analysis") =>
          /\ convergent_methods["Transposition"]
                = convergent_methods["Direct Center Row"]
          /\ convergent_methods["Transposition"]
                = [k \in 1..N |-> Chr(square[3][k] % 256)]

\* a grid other than the literal, whose column 2 differs from its row 2,
\* has been through both transpositions
C21_Witness ==
    /\ square # SquareLiteral
    /\ \E k \in 1..N : square[k][3] # square[3][k]
    /\ pc = "_analyze_patterns"
    /\ HasWritten("trans_values", square[3])
    /\ convergent_methods["Transposition"]
          = convergent_methods["Direct Center Row"]

\* C22: the hard-coded grid contains exactly one prime number, 809, and it
\* occurs only at position [2][2]; so primes[0], prime_val and prime_count
\* (= 1) have the same values whatever order set(self.flat) is iterated in.
C22_SinglePrime ==
    square = SquareLiteral =>
        /\ \A i \in 0..(N - 1), j \in 0..(N - 1) :
              NoDivisor(square[i + 1][j + 1]) <=> (i = 2 /\ j = 2)
        /\ square[3][3] = 809
        /\ Finished("_analyze_prime_distribution") =>
              /\ primes = <<809>>
              /\ HasWritten("one prime", 809)
              /\ \E k \in 1..Len(f.written) :
                    f.written[k] = <<"ASCII Value", 41, ")">>
        /\ Finished("_write_complete_solution") =>
              \A k \in 1..Len(f.written) :
                  f.written[k][1] = "Prime count" =>
                      f.written[k] = <<"Prime count", 1, 809>>

\* the report of the literal has its prime count and prime value
C22_Witness ==
    /\ square = SquareLiteral
    /\ pc = "close"
    /\ primes = <<809>>
    /\ \E k \in 1..Len(f.written) : f.written[k] = <<"Prime count", 1, 809>>

\* C23: taking every 4th position of the flattened hard-coded grid from
\* index 2 gives the values [312,812,626,626,812,312], whose mod-256
\* encoding is the string '8,rr,8'; that string is a palindrome and all 6 of
\* its codes lie in [32,126]: 100% ASCII validity.
C23_SecondaryPattern ==
    (square = SquareLiteral /\ Finished("_discover_palindromes")) =>
        LET values == patterns["secondary"].values
            ascii == patterns["secondary"].ascii
        IN /\ values = <<312, 812, 626, 626, 812, 312>>
           /\ \A k \in 1..6 : values[k] = flat[2 + 4 * (k - 1) + 1]
           /\ ascii = <<"8", ",", "r", "r", ",", "8">>
           /\ \A k \in 1..6 : ascii[k] = ascii[7 - k]
           /\ \A k \in 1..6 : IsPrintableCode(CodeOf(values[k]))
           /\ HasWritten("Values", values)
           /\ HasWritten("ASCII", ascii)

\* _discover_palindromes has stored the secondary pattern of the literal
C23_Witness ==
    /\ square = SquareLiteral
    /\ pc = "_analyze_prime_distribution"
    /\ patterns["secondary"].ascii = <<"8", ",", "r", "r", ",", "8">>

\* C24: the three palindromic sequences the report prints as constants
\* ([1071,626,620,809,620,626,1071], [626,620,809,620,626], [620,809,620])
\* and the constant palindrome_count = 3 are exactly what the scan computes
\* for the hard-coded grid: palindromes_found over lengths 3, 5 and 7
\* contains those three sequences and no others.
C24_ConstantsMatchScan ==
    (square = SquareLiteral /\ Finished("_analyze_prime_distribution")) =>
        /\ Len(palindromes_found) = palindrome_count
        /\ PySet(palindromes_found)
              = {<<length, sequences[length]>> : length \in DOMAIN sequences}
        /\ \A length \in DOMAIN sequences :
              /\ Len(sequences[length]) = length
              /\ \E i \in 0..(N * N - length) :
                    \A k \in 1..length : flat[i + k] = sequences[length][k]

\* the scan of the literal has found its three sequences
C24_Witness ==
    /\ square = SquareLiteral
    /\ pc = "_perform_ascii_analysis"
    /\ Len(palindromes_found) = 3
    /\ palindromes_found[3] = <<7, <<1071, 626, 620, 809, 620, 626, 1071>> >>

\* C25: the hard-coded grid has horizontal and vertical reflection symmetry,
\* square[i][j] == square[i][4-j] and square[i][j] == square[4-i][j] for all
\* i, j in 0..4, in addition to its 180-degree rotational symmetry; this is
\* what _analyze_prime_distribution writes under 'Symmetry Properties'.
C25_ReflectionSymmetry ==
    (square = SquareLiteral /\ Finished("_analyze_prime_distribution")) =>
        /\ \A i \in 0..(N - 1), j \in 0..(N - 1) :
              square[i + 1][j + 1] = square[i + 1][(4 - j) + 1]
        /\ \A i \in 0..(N - 1), j \in 0..(N - 1) :
              square[i + 1][j + 1] = square[(4 - i) + 1][j + 1]
        /\ \A i \in 0..(N - 1), j \in 0..(N - 1) :
              square[i + 1][j + 1] = square[(4 - i) + 1][(4 - j) + 1]

\* the grid has point symmetry
PointSymmetric(grid) ==
    \A i \in 0..(N - 1), j \in 0..(N - 1) :
        grid[i + 1][j + 1] = grid[(4 - i) + 1][(4 - j) + 1]

\* flat[i:i+length], as the cells themselves
Window(i, length) == [k \in 1..length |-> flat[i + k]]

\* C26: for every 5x5 grid with point symmetry (square[i][j] ==
\* square[4-i][4-j]) the row-major flattening equals its own reversal,
\* flat[k] == flat[24-k] for all k, so the palindrome scan always finds a
\* palindrome of length 3 at index 11, of length 5 at index 10 and of
\* length 7 at index 9.
C26_PointSymmetryPalindromes ==
    PointSymmetric(square) =>
        /\ flat # <<>> =>
              \A k \in 0..(N * N - 1) : flat[k + 1] = flat[(24 - k) + 1]
        /\ Finished("_analyze_prime_distribution") =>
              /\ <<3, Window(11, 3)>> \in PySet(palindromes_found)
              /\ <<5, Window(10, 5)>> \in PySet(palindromes_found)
              /\ <<7, Window(9, 7)>> \in PySet(palindromes_found)
              /\ \A k \in 1..7 : Window(9, 7)[k] = Window(9, 7)[8 - k]

\* a point-symmetric grid other than the literal has been scanned
C26_Witness ==
    /\ PointSymmetric(square)
    /\ square \in SymmetricChanges
    /\ square[1][1] # SquareLiteral[1][1]
    /\ pc = "_perform_ascii_analysis"
    /\ <<7, Window(9, 7)>> \in PySet(palindromes_found)

\* the digital root of a positive number, by the rule of nines
RootOf(n) == 1 + ((n - 1) % 9)

\* how many of the 25 cells have digital root r
RootCount(r) ==
    Cardinality({c \in (1..N) \X (1..N) : RootOf(square[c[1]][c[2]]) = r})

\* the 'Root r: count occurrences' lines written, as <<r, count, marked>>
RootLinesWritten ==
    {<<f.written[k][2], f.written[k][3], Len(f.written[k]) = 4>> :
        k \in {x \in 1..Len(f.written) : f.written[x][1] = "Root"}}

\* C27: over the 25 cells of the hard-coded grid, digital root 6 is the
\* single most frequent root with 6 occurrences (root 8 has 5, root 2 has 4,
\* and roots 1, 3, 5, 7 and 9 have 2 each, summing to 25), so exactly one
\* line is written as 'highest frequency' and the 'Other roots: 2
\* occurrences each' line is written.
C27_DigitalRootHistogram ==
    square = SquareLiteral =>
        /\ RootCount(6) = 6
        /\ RootCount(8) = 5
        /\ RootCount(2) = 4
        /\ \A r \in {1, 3, 5, 7, 9} : RootCount(r) = 2
        /\ RootCount(4) = 0
        /\ Finished("_discover_palindromes") =>
              /\ RootLinesWritten
                    = {<<6, 6, TRUE>>, <<8, 5, FALSE>>, <<2, 4, FALSE>>}
              /\ Cardinality({k \in 1..Len(f.written) :
                                 f.written[k][1] = "Root"}) = 3
              /\ Cardinality({k \in 1..Len(f.written) :
                                 f.written[k][1] = "Other roots"}) = 1

\* the histogram of the literal has been written
C27_Witness ==
    /\ square = SquareLiteral
    /\ pc = "_analyze_prime_distribution"
    /\ <<6, 6, TRUE>> \in RootLinesWritten
    /\ \E k \in 1..Len(f.written) : f.written[k][1] = "Other roots"

====
